---- MODULE Spec2Model ----
(***************************************************************************)
(* VA Disability Parser (VAParserApp): the session state of the GUI, its   *)
(* event handlers, the default two-key ranking, the filter/search          *)
(* evaluation and the four exports.                                        *)
(*                                                                         *)
(* A DataFrame is a sequence of rows; a row is a record that carries its   *)
(* index label (idx) and the five columns.  Python's None is the string    *)
(* "None".  A "Rating %" cell is <<"N/A">>, <<"int", n>> or <<"float", n>> *)
(* (pandas turns an integer column that has a missing value into floats).  *)
(* Text that the program searches is a sequence of one-character strings.  *)
(***************************************************************************)
EXTENDS Integers, Sequences, FiniteSets, TLC

VARIABLES
    data, original_data, filtered_data,   \* the three DataFrames of the session
    current_sort_col, current_sort_desc,  \* header-click sort state
    search_var, service_var, static_var,  \* the Tk variables of the widgets
    tree,                                 \* the rows shown in the Treeview
    status,                               \* the status label
    dialog,                               \* the last message box shown
    written,                              \* what the last export wrote
    rank_in, rank_out, rank_pc,           \* ranking a row sequence on its own
    eval_in, eval_out, eval_pc,           \* one filter/search evaluation on its own
    norm_in, norm_out, norm_pc,           \* normalizing a record list on its own
    requested, verdict, applied, attempts \* the filter-set validator's caller

vars == <<data, original_data, filtered_data, current_sort_col,
          current_sort_desc, search_var, service_var, static_var, tree,
          status, dialog, written, rank_in, rank_out, rank_pc,
          eval_in, eval_out, eval_pc, norm_in, norm_out, norm_pc,
          requested, verdict, applied, attempts>>

sessionVars == <<data, original_data, filtered_data, current_sort_col,
                 current_sort_desc, search_var, service_var, static_var, tree,
                 status, dialog, written>>

rankVars == <<rank_in, rank_out, rank_pc>>

evalVars == <<eval_in, eval_out, eval_pc>>

normVars == <<norm_in, norm_out, norm_pc>>

validatorVars == <<requested, verdict, applied, attempts>>

-----------------------------------------------------------------------------
(* Bounds *)

MaxRankRows == 3

MaxFileRows == 2

MaxEvalRows == 2

MaxAttempts == 2

MaxNormRows == 2

-----------------------------------------------------------------------------
(* Values *)

None == "None"

SC == "Service Connected"

NSC == "Not Service Connected"

NA == <<"N/A">>

Columns == <<"Decision", "Rating %", "Condition", "Description", "Static">>

Decisions == {SC, NSC, None}

RawRatings == {<<>>, <<0>>, <<30>>, <<50>>}

Range(s) == {s[i] : i \in DOMAIN s}

-----------------------------------------------------------------------------
(* load_file, lines 87-99: one raw record list to a DataFrame *)

\* pd.DataFrame([...]) infers the column: integers stay integers unless a
\* value is missing, then the column is float64 and the missing value NaN;
\* a column with no number at all stays a column of None.
HasMissing(ratings) == \E i \in DOMAIN ratings : ratings[i].rating_percentage = <<>>

\* df["Rating %"].fillna("N/A")
NormRating(raw, float) ==
    IF raw = <<>> THEN NA
    ELSE IF float THEN <<"float", raw[1]>> ELSE <<"int", raw[1]>>

NormStaticTrueOnly(x) == IF x = "true" THEN "Yes" ELSE "No"

\* lambda x: "Yes" if x is True else ("No" if x is False else "N/A")
NormStatic(x) == IF x = "true" THEN "Yes" ELSE IF x = "false" THEN "No" ELSE "N/A"

Normalize(ratings) ==
    [i \in DOMAIN ratings |->
        [idx         |-> i - 1,
         Decision    |-> ratings[i].decision,
         Rating      |-> NormRating(ratings[i].rating_percentage, HasMissing(ratings)),
         Condition   |-> ratings[i].diagnostic_type_name,
         Description |-> ratings[i].diagnostic_text,
         Static      |-> NormStatic(ratings[i].static_ind)]]

-----------------------------------------------------------------------------
(* custom_default_sort, lines 118-132 *)

\* float(pct) if pct != "N/A" else -1
PctVal(pct) == IF pct = NA THEN -1 ELSE pct[2]

sort_key_NoGroup(row) == <<0, 0 - PctVal(row.Rating)>>

sort_key_Ascending(row) ==
    <<IF row.Decision = SC THEN 0 ELSE 1, PctVal(row.Rating)>>

sort_key(row) ==
    LET pct_val == PctVal(row.Rating)
        service_conn_priority == IF row.Decision = SC THEN 0 ELSE 1
    IN  <<service_conn_priority, 0 - pct_val>>

\* Python's tuple comparison a < b of two sort keys
LT(a, b) == a[1] < b[1] \/ (a[1] = b[1] /\ a[2] < b[2])

\* sort_values(kind="quicksort") on the object column of keys is numpy's
\* generic argsort quicksort: partitions longer than SMALL_QUICKSORT + 1 are
\* split around a median of three, shorter ones are insertion-sorted.  (Its
\* fall-back to heapsort after 2*floor(log2(n)) nested splits is not reached
\* by the lengths used here.)
SMALL_QUICKSORT == 16

Swap(ts, i, j) == [ts EXCEPT ![i] = ts[j], ![j] = ts[i]]

RECURSIVE InsertShift(_, _, _, _, _)
InsertShift(v, ts, pl, pj, vi) ==
    IF pj > pl /\ LT(v[vi], v[ts[pj - 1]])
    THEN InsertShift(v, [ts EXCEPT ![pj] = ts[pj - 1]], pl, pj - 1, vi)
    ELSE [ts EXCEPT ![pj] = vi]

RECURSIVE InsertionSort(_, _, _, _, _)
InsertionSort(v, ts, pl, pr, pi) ==
    IF pi > pr THEN ts
    ELSE InsertionSort(v, InsertShift(v, ts, pl, pi, ts[pi]), pl, pr, pi + 1)

RECURSIVE ScanUp(_, _, _, _)
ScanUp(v, ts, pi, vp) ==
    IF LT(v[ts[pi]], vp) THEN ScanUp(v, ts, pi + 1, vp) ELSE pi

RECURSIVE ScanDown(_, _, _, _)
ScanDown(v, ts, pj, vp) ==
    IF LT(vp, v[ts[pj]]) THEN ScanDown(v, ts, pj - 1, vp) ELSE pj

RECURSIVE PartitionLoop(_, _, _, _, _)
PartitionLoop(v, ts, pi, pj, vp) ==
    LET pi2 == ScanUp(v, ts, pi + 1, vp)
        pj2 == ScanDown(v, ts, pj - 1, vp)
    IN  IF pi2 >= pj2 THEN <<ts, pi2>>
        ELSE PartitionLoop(v, Swap(ts, pi2, pj2), pi2, pj2, vp)

Partition(v, ts, pl, pr) ==
    LET pm == pl + ((pr - pl) \div 2)
        t1 == IF LT(v[ts[pm]], v[ts[pl]]) THEN Swap(ts, pm, pl) ELSE ts
        t2 == IF LT(v[t1[pr]], v[t1[pm]]) THEN Swap(t1, pr, pm) ELSE t1
        t3 == IF LT(v[t2[pm]], v[t2[pl]]) THEN Swap(t2, pm, pl) ELSE t2
        vp == v[t3[pm]]
        t4 == Swap(t3, pm, pr - 1)
        lp == PartitionLoop(v, t4, pl, pr - 1, vp)
    IN  <<Swap(lp[1], lp[2], pr - 1), lp[2]>>

RECURSIVE AQuickSort(_, _, _, _)
AQuickSort(v, ts, pl, pr) ==
    IF pr - pl > SMALL_QUICKSORT
    THEN LET p == Partition(v, ts, pl, pr)
         IN  AQuickSort(v, AQuickSort(v, p[1], pl, p[2] - 1), p[2] + 1, pr)
    ELSE InsertionSort(v, ts, pl, pr, pl + 1)

\* the positions of v's elements in sorted order
ArgSort(v) == AQuickSort(v, [i \in DOMAIN v |-> i], 1, Len(v))

custom_default_sort(df) ==
    LET keys == [i \in DOMAIN df |-> sort_key(df[i])]
        ix   == ArgSort(keys)
    IN  [i \in DOMAIN df |-> df[ix[i]]]

-----------------------------------------------------------------------------
(* Text: str(), lower(), strip(), substring *)

Ascii ==
    <<" ", "%", ",", ".", "/", "0", "1", "2", "3", "4", "5", "6", "7", "8",
     "9", ":", "A", "B", "C", "D", "E", "F", "G", "H", "I", "J", "K", "L",
     "M", "N", "O", "P", "Q", "R", "S", "T", "U", "V", "W", "X", "Y", "Z",
     "a", "b", "c", "d", "e", "f", "g", "h", "i", "j", "k", "l", "m", "n",
     "o", "p", "q", "r", "s", "t", "u", "v", "w", "x", "y", "z">>

Code(c) == CHOOSE i \in DOMAIN Ascii : Ascii[i] = c

LowerMap ==
    [A |-> "a", B |-> "b", C |-> "c", D |-> "d", E |-> "e", F |-> "f",
     G |-> "g", H |-> "h", I |-> "i", J |-> "j", K |-> "k", L |-> "l",
     M |-> "m", N |-> "n", O |-> "o", P |-> "p", Q |-> "q", R |-> "r",
     S |-> "s", T |-> "t", U |-> "u", V |-> "v", W |-> "w", X |-> "x",
     Y |-> "y", Z |-> "z"]

LowerChar(c) == IF c \in DOMAIN LowerMap THEN LowerMap[c] ELSE c

\* str.lower()
Lower(s) == SubSeq([i \in DOMAIN s |-> LowerChar(s[i])], 1, Len(s))

\* str.strip()
RECURSIVE LStrip(_)
LStrip(s) == IF s # <<>> /\ Head(s) = " " THEN LStrip(Tail(s)) ELSE s

RECURSIVE RStrip(_)
RStrip(s) ==
    IF s # <<>> /\ s[Len(s)] = " " THEN RStrip(SubSeq(s, 1, Len(s) - 1)) ELSE s

Strip(s) == RStrip(LStrip(s))

\* q in s
Contains(s, q) ==
    \E i \in 1..(Len(s) - Len(q) + 1) : SubSeq(s, i, i + Len(q) - 1) = q

Digit(n) == <<Ascii[Code("0") + n]>>

RECURSIVE Digits(_)
Digits(n) == IF n < 10 THEN Digit(n) ELSE Digits(n \div 10) \o Digit(n % 10)

\* pandas' display.max_colwidth
MaxColWidth == 50

\* the free-text cells of the sample records; LongPain is MaxColWidth long
LongPain == [i \in 1..(MaxColWidth - 4) |-> "z"] \o <<"p", "a", "i", "n">>

Text(name) ==
    CASE name = "Tinnitus" -> <<"T", "i", "n", "n", "i", "t", "u", "s">>
      [] name = "Knee"     -> <<"K", "n", "e", "e">>
      [] name = "Ringing"  -> <<"R", "i", "n", "g", "i", "n", "g">>
      [] name = "LongPain" -> LongPain
      [] name = SC         -> <<"S", "e", "r", "v", "i", "c", "e", " ", "C",
       "o", "n", "n", "e", "c", "t", "e", "d">>
      [] name = NSC        -> <<"N", "o", "t", " ", "S", "e", "r", "v", "i",
       "c", "e", " ", "C", "o", "n", "n", "e", "c", "t", "e", "d">>
      [] name = None       -> <<"N", "o", "n", "e">>
      [] name = "N/A"      -> <<"N", "/", "A">>
      [] name = "Yes"      -> <<"Y", "e", "s">>
      [] name = "No"       -> <<"N", "o">>
      [] name = "Decision"    -> <<"D", "e", "c", "i", "s", "i", "o", "n">>
      [] name = "Rating %"    -> <<"R", "a", "t", "i", "n", "g", " ", "%">>
      [] name = "Condition"   -> <<"C", "o", "n", "d", "i", "t", "i", "o", "n">>
      [] name = "Description" -> <<"D", "e", "s", "c", "r", "i", "p", "t", "i", "o", "n">>
      [] name = "Static"      -> <<"S", "t", "a", "t", "i", "c">>

\* str() of a "Rating %" cell
RatingText(pct) ==
    IF pct = NA THEN Text("N/A")
    ELSE IF pct[1] = "float" THEN Digits(pct[2]) \o <<".", "0">>
    ELSE Digits(pct[2])

\* the five cells of a row as text, in column order
CellTexts(row) ==
    <<Text(row.Decision), RatingText(row.Rating), Text(row.Condition),
      Text(row.Description), Text(row.Static)>>

\* str(row) of a row Series, as pandas prints it: one line per column, the
\* label left-justified, the value right-justified and cut to
\* display.max_colwidth, then the footer with the row's index label.
Spaces(n) == [i \in 1..n |-> " "]

Max(S) == CHOOSE x \in S : \A y \in S : y <= x

LJust(s, w) == s \o Spaces(w - Len(s))

RJust(s, w) == Spaces(w - Len(s)) \o s

Truncate(x, w) ==
    IF Len(x) > w THEN SubSeq(x, 1, w - 3) \o <<".", ".", ".">> ELSE x

RECURSIVE JoinLines(_)
JoinLines(ls) ==
    IF ls = <<>> THEN <<>> ELSE Head(ls) \o <<"\n">> \o JoinLines(Tail(ls))

StrRow(row) ==
    LET cells  == CellTexts(row)
        padded == [i \in DOMAIN cells |-> <<" ">> \o cells[i]]
        width  == Max({Len(padded[i]) : i \in DOMAIN padded})
        w      == IF width > MaxColWidth THEN MaxColWidth ELSE width
        labelw == Max({Len(Text(Columns[i])) : i \in DOMAIN Columns})
        line(i) == LJust(Text(Columns[i]), labelw + 3)
                       \o RJust(Truncate(padded[i], w), w)
    IN  JoinLines([i \in DOMAIN cells |-> line(i)])
            \o <<"N", "a", "m", "e", ":", " ">> \o Digits(row.idx)
            \o <<",", " ", "d", "t", "y", "p", "e", ":", " ", "o", "b", "j", "e", "c", "t">>

\* the text of the row's own displayed cells only
StrValues(row) == JoinLines(CellTexts(row))

-----------------------------------------------------------------------------
(* The documents a user can open, and what can be typed in the search box *)

Record(d, r, name, text, static) ==
    [decision |-> d, rating_percentage |-> r, diagnostic_type_name |-> name,
     diagnostic_text |-> text, static_ind |-> static]

SampleRecords ==
    {Record(SC, <<50>>, "Tinnitus", "Ringing", "true"),
     Record(NSC, <<30>>, "Knee", "LongPain", "false"),
     Record(None, <<>>, "Knee", None, "null")}

SeqsUpTo(S, n) == UNION {[1..k -> S] : k \in 0..n}

Injective(s) == \A i, j \in DOMAIN s : s[i] = s[j] => i = j

\* a JSON document: one that does not parse, one without the path
\* data.attributes.individual_ratings, one with a list of records at that
\* path (here: sample records, each at most once), or one with a list there
\* that holds something that is no record
Documents ==
    {[kind |-> k, ratings |-> <<>>] : k \in {"unparsable", "nopath", "nonrecord"}}
    \cup {[kind |-> "list", ratings |-> rs] :
             rs \in {s \in SeqsUpTo(SampleRecords, MaxFileRows) : Injective(s)}}

Queries ==
    {<<>>, <<" ", "T", "i", "n", "n", "i", "t", "u", "s", " ">>}

Formats == {"csv", "txt", "md", "xlsx"}

EvalRecords ==
    {Record(SC, <<50>>, "Tinnitus", "Ringing", s) : s \in {"true", "false", "null"}}
    \cup {Record(NSC, <<30>>, "Knee", "LongPain", s) : s \in {"true", "false", "null"}}
    \cup {Record(None, <<>>, "Knee", None, s) : s \in {"true", "false", "null"}}

-----------------------------------------------------------------------------
(* apply_filters_and_search, lines 154-175: the evaluation *)

ServiceValues_Editable == {"All", SC, NSC, "Service Connected, Static"}

\* line 48: the values of the read-only Service Connection combobox
ServiceValues == {"All", SC, NSC}

\* line 53: the values of the read-only Static Status combobox
StaticValues == {"All", "Static", "Non-Static"}

KeepService(row, svc_filter) ==
    IF svc_filter = SC THEN row.Decision = SC
    ELSE IF svc_filter = NSC THEN row.Decision = NSC
    ELSE TRUE

KeepStatic_NotNo(row, static_filter) ==
    IF static_filter = "Static" THEN row.Static # "No"
    ELSE IF static_filter = "Non-Static" THEN row.Static = "No"
    ELSE TRUE

KeepStatic_NonStaticNotYes(row, static_filter) ==
    IF static_filter = "Static" THEN row.Static = "Yes"
    ELSE IF static_filter = "Non-Static" THEN row.Static # "Yes"
    ELSE TRUE

KeepStatic(row, static_filter) ==
    IF static_filter = "Static" THEN row.Static = "Yes"
    ELSE IF static_filter = "Non-Static" THEN row.Static = "No"
    ELSE TRUE

\* self.search_var.get().strip().lower()
Query(text) == Lower(Strip(text))

\* str(row).lower() of every row a frame of the model can hold, rendered once
SearchedRows ==
    UNION {Range(Normalize(rs)) :
             rs \in SeqsUpTo(SampleRecords, MaxFileRows)
                       \cup SeqsUpTo(EvalRecords, MaxEvalRows)}

LoweredRows == {<<row, Lower(StrRow(row))>> : row \in SearchedRows}

LoweredStr(row) == (CHOOSE p \in LoweredRows : p[1] = row)[2]

\* query in str(row).lower()
KeepSearch(row, query) == query = <<>> \/ Contains(LoweredStr(row), query)

Evaluate_Ranked(df, svc_filter, static_filter, text) ==
    LET keep(row) == /\ KeepService(row, svc_filter)
                     /\ KeepStatic(row, static_filter)
                     /\ KeepSearch(row, Query(text))
    IN  custom_default_sort(SelectSeq(df, keep))

Evaluate(df, svc_filter, static_filter, text) ==
    LET keep(row) == /\ KeepService(row, svc_filter)
                     /\ KeepStatic(row, static_filter)
                     /\ KeepSearch(row, Query(text))
    IN  SelectSeq(df, keep)

\* the cells of a row as the Treeview and the exports get them
Values(row) == <<row.Decision, row.Rating, row.Condition, row.Description, row.Static>>

Display(df) == [i \in DOMAIN df |-> Values(df[i])]

-----------------------------------------------------------------------------
(* sort_by_column, lines 134-152 *)

Perms(n) == {p \in [1..n -> 1..n] : \A i, j \in 1..n : p[i] = p[j] => i = j}

RECURSIVE TextLess(_, _)
TextLess(a, b) ==
    IF b = <<>> THEN FALSE
    ELSE IF a = <<>> THEN TRUE
    ELSE IF Head(a) = Head(b) THEN TextLess(Tail(a), Tail(b))
    ELSE Code(Head(a)) < Code(Head(b))

ColumnOf(row, col) ==
    CASE col = "Decision"    -> row.Decision
      [] col = "Rating %"    -> row.Rating
      [] col = "Condition"   -> row.Condition
      [] col = "Description" -> row.Description
      [] col = "Static"      -> row.Static

WithColumn(row, col, v) ==
    CASE col = "Decision"    -> [row EXCEPT !.Decision = v]
      [] col = "Rating %"    -> [row EXCEPT !.Rating = v]
      [] col = "Condition"   -> [row EXCEPT !.Condition = v]
      [] col = "Description" -> [row EXCEPT !.Description = v]
      [] col = "Static"      -> [row EXCEPT !.Static = v]

\* df[col] = df[col].replace("N/A", -1).astype(float) inside try/except: the
\* column is replaced only when every cell converts.  "Rating %" always
\* converts; a text column converts when it holds nothing but None (to NaN),
\* "Static" when it holds nothing but "N/A" (to -1.0).
Converted(df, col) ==
    IF col = "Rating %"
    THEN [i \in DOMAIN df |-> WithColumn(df[i], col, <<"float", PctVal(df[i].Rating)>>)]
    ELSE IF col = "Static" /\ \A i \in DOMAIN df : df[i].Static = "N/A"
    THEN [i \in DOMAIN df |-> WithColumn(df[i], col, "-1.0")]
    ELSE IF col # "Static" /\ \A i \in DOMAIN df : ColumnOf(df[i], col) = None
    THEN [i \in DOMAIN df |-> WithColumn(df[i], col, "nan")]
    ELSE df

\* a missing value (None, NaN) of the column: sort_values puts these last
IsNaCell(row, col) == col # "Rating %" /\ ColumnOf(row, col) \in {None, "nan"}

CellLess(a, b, col) ==
    IF col = "Rating %" THEN a.Rating[2] < b.Rating[2]
    ELSE IF ColumnOf(a, col) = "-1.0" THEN FALSE
    ELSE TextLess(Text(ColumnOf(a, col)), Text(ColumnOf(b, col)))

\* df.sort_values(by=col, ascending=not desc): the rows in column order with
\* the missing cells last; rows with equal cells in any order (the default
\* sort kind is not a stable one).
ColumnSorted(df, col, desc) ==
    {s \in {[i \in DOMAIN df |-> df[p[i]]] : p \in Perms(Len(df))} :
        \A i, j \in DOMAIN s : i < j =>
            /\ IsNaCell(s[i], col) => IsNaCell(s[j], col)
            /\ (~IsNaCell(s[i], col) /\ ~IsNaCell(s[j], col)) =>
                   IF desc THEN ~CellLess(s[i], s[j], col)
                   ELSE ~CellLess(s[j], s[i], col)}

-----------------------------------------------------------------------------
(* The session: __init__ and the event handlers *)

\* lines 14-21
SessionInit ==
    /\ data = <<>>
    /\ original_data = <<>>
    /\ filtered_data = <<>>
    /\ current_sort_col = None
    /\ current_sort_desc = TRUE
    /\ search_var = <<>>
    /\ service_var = "All"
    /\ static_var = "All"
    /\ tree = <<>>
    /\ status = <<"Ready">>
    /\ dialog = "none"
    /\ written = <<>>

\* lines 107-116: display_data(df, default_sort)
display_data(df, default_sort) ==
    tree' = Display(IF default_sort THEN custom_default_sort(df) ELSE df)

\* lines 77-83: json.load and the path lookup raise
LoadRaises(doc) == doc.kind \in {"unparsable", "nopath"}

\* lines 87-99: building the frame raises (an element without .get, or no
\* element at all, so that the frame has no "Rating %" column)
FrameRaises(doc) == doc.kind = "nonrecord" \/ doc.ratings = <<>>

load_file_StatusFirst(doc) ==
    /\ written' = <<>>
    /\ status' = <<"Loaded", doc>>
    /\ dialog' = IF LoadRaises(doc) THEN "load_error" ELSE "none"
    /\ IF LoadRaises(doc) \/ FrameRaises(doc)
       THEN UNCHANGED <<data, original_data, filtered_data, current_sort_col, tree>>
       ELSE LET df == Normalize(doc.ratings)
            IN  /\ data' = df
                /\ original_data' = df
                /\ filtered_data' = df
                /\ current_sort_col' = None
                /\ display_data(df, TRUE)
    /\ UNCHANGED <<current_sort_desc, search_var, service_var, static_var>>

\* lines 70-105
load_file(doc) ==
    /\ written' = <<>>
    /\ IF LoadRaises(doc)
       THEN /\ dialog' = "load_error"
            /\ UNCHANGED <<data, original_data, filtered_data, current_sort_col,
                           tree, status>>
       ELSE /\ dialog' = "none"
            /\ status' = <<"Loaded", doc>>
            /\ IF FrameRaises(doc)
               THEN UNCHANGED <<data, original_data, filtered_data,
                                current_sort_col, tree>>
               ELSE LET df == Normalize(doc.ratings)
                    IN  /\ data' = df
                        /\ original_data' = df
                        /\ filtered_data' = df
                        /\ current_sort_col' = None
                        /\ display_data(df, TRUE)
    /\ UNCHANGED <<current_sort_desc, search_var, service_var, static_var>>

\* lines 74-75: the file dialog is cancelled
LoadCancelled ==
    /\ dialog' = "none"
    /\ written' = <<>>
    /\ UNCHANGED <<data, original_data, filtered_data, current_sort_col,
                   current_sort_desc, search_var, service_var, static_var,
                   tree, status>>

\* lines 154-175, with the widget variables as the event leaves them
apply_filters_and_search(svc, static, text) ==
    LET df == Evaluate(original_data, svc, static, text)
    IN  /\ service_var' = svc
        /\ static_var' = static
        /\ search_var' = text
        /\ filtered_data' = df
        /\ display_data(df, TRUE)
        /\ dialog' = "none"
        /\ written' = <<>>
        /\ UNCHANGED <<data, original_data, current_sort_col, current_sort_desc,
                       status>>

\* line 50: <<ComboboxSelected>> of the Service Connection box
SelectService(v) == apply_filters_and_search(v, static_var, search_var)

\* line 55: <<ComboboxSelected>> of the Static Status box
SelectStatic(v) == apply_filters_and_search(service_var, v, search_var)

\* line 40: <KeyRelease> in the search entry
SearchKeyRelease(text) == apply_filters_and_search(service_var, static_var, text)

\* lines 134-152
sort_by_column(col) ==
    /\ dialog' = "none"
    /\ written' = <<>>
    /\ IF filtered_data = <<>>
       THEN UNCHANGED <<current_sort_col, current_sort_desc, tree>>
       ELSE LET desc == IF current_sort_col = col THEN ~current_sort_desc ELSE TRUE
            IN  /\ current_sort_col' = col
                /\ current_sort_desc' = desc
                /\ \E df \in ColumnSorted(Converted(filtered_data, col), col, desc) :
                       display_data(df, FALSE)
    /\ UNCHANGED <<data, original_data, filtered_data, search_var, service_var,
                   static_var, status>>

\* lines 247-249
reset_sort ==
    /\ dialog' = "none"
    /\ written' = <<>>
    /\ IF filtered_data # <<>>
       THEN display_data(filtered_data, TRUE)
       ELSE UNCHANGED tree
    /\ UNCHANGED <<data, original_data, filtered_data, current_sort_col,
                   current_sort_desc, search_var, service_var, static_var, status>>

\* lines 205-245: what export_csv / export_txt / export_md / export_xlsx hand
\* to the writer: self.filtered_data without its index, under the header
ExportRows_Reversed(fmt) ==
    [i \in DOMAIN filtered_data |-> Values(filtered_data[Len(filtered_data) + 1 - i])]

ExportRows(fmt) == Display(filtered_data)

export_prompt_SilentFail(choice, path, ok) ==
    /\ UNCHANGED <<data, original_data, filtered_data, current_sort_col,
                   current_sort_desc, search_var, service_var, static_var,
                   tree, status>>
    /\ IF filtered_data = <<>>
       THEN dialog' = "no_data" /\ written' = <<>>
       ELSE IF choice = ""
       THEN dialog' = "none" /\ written' = <<>>
       ELSE IF choice \notin Formats
       THEN dialog' = "invalid_choice" /\ written' = <<>>
       ELSE IF ~path
       THEN dialog' = "none" /\ written' = <<>>
       ELSE IF ok
       THEN dialog' = "exported" /\ written' = <<choice, Columns, ExportRows(choice)>>
       ELSE dialog' = "exported" /\ written' = <<>>

export_prompt_NoEmptyCheck(choice, path, ok) ==
    /\ UNCHANGED <<data, original_data, filtered_data, current_sort_col,
                   current_sort_desc, search_var, service_var, static_var,
                   tree, status>>
    /\ IF choice = ""
       THEN dialog' = "none" /\ written' = <<>>
       ELSE IF choice \notin Formats
       THEN dialog' = "invalid_choice" /\ written' = <<>>
       ELSE IF ~path
       THEN dialog' = "none" /\ written' = <<>>
       ELSE IF ok
       THEN dialog' = "exported" /\ written' = <<choice, Columns, ExportRows(choice)>>
       ELSE dialog' = "export_error" /\ written' = <<>>

\* lines 177-245: export_prompt and the export it dispatches to.  choice is
\* the text typed in the format dialog ("" when cancelled), path is FALSE when
\* the save dialog is cancelled, ok is whether the write succeeds.
export_prompt(choice, path, ok) ==
    /\ UNCHANGED <<data, original_data, filtered_data, current_sort_col,
                   current_sort_desc, search_var, service_var, static_var,
                   tree, status>>
    /\ IF filtered_data = <<>>
       THEN dialog' = "no_data" /\ written' = <<>>
       ELSE IF choice = ""
       THEN dialog' = "none" /\ written' = <<>>
       ELSE IF choice \notin Formats
       THEN dialog' = "invalid_choice" /\ written' = <<>>
       ELSE IF ~path
       THEN dialog' = "none" /\ written' = <<>>
       ELSE IF ok
       THEN dialog' = "exported" /\ written' = <<choice, Columns, ExportRows(choice)>>
       ELSE dialog' = "export_error" /\ written' = <<>>

\* the answers to the two dialogs and the fate of the write: every
\* combination that matters, and the few the whole session is run with
ExportInputs ==
    {<<c, FALSE, FALSE>> : c \in Formats \cup {"", "5"}}
    \cup {<<c, TRUE, ok>> : c \in Formats, ok \in BOOLEAN}

FewExportInputs == {<<"", FALSE, FALSE>>, <<"csv", TRUE, TRUE>>, <<"csv", TRUE, FALSE>>}

FiltersNext ==
    \/ \E doc \in Documents : load_file(doc)
    \/ \E v \in ServiceValues : SelectService(v)
    \/ \E v \in StaticValues : SelectStatic(v)
    \/ \E text \in Queries : SearchKeyRelease(text)

SessionNext ==
    \/ FiltersNext
    \/ LoadCancelled
    \/ \E col \in Range(Columns) : sort_by_column(col)
    \/ reset_sort
    \/ \E in \in FewExportInputs : export_prompt(in[1], in[2], in[3])

ExportNext ==
    \/ FiltersNext
    \/ \E in \in ExportInputs : export_prompt(in[1], in[2], in[3])

-----------------------------------------------------------------------------
(* Ranking a row sequence on its own *)

RankRecords == {Record(d, r, "Knee", "Ringing", "null") : d \in Decisions, r \in RawRatings}

\* row sequences long enough for the sort to split them
LongLen == SMALL_QUICKSORT + 2

LongInputs ==
    {[i \in 1..LongLen |-> IF i % m = 0 THEN a ELSE b] :
        a \in RankRecords, b \in RankRecords, m \in 2..3}

RankInputs ==
    {Normalize(rs) : rs \in SeqsUpTo(RankRecords, MaxRankRows) \cup LongInputs}

RankInit ==
    /\ rank_in \in RankInputs
    /\ rank_out = <<>>
    /\ rank_pc = "input"

Rank ==
    /\ rank_pc = "input"
    /\ rank_out' = custom_default_sort(rank_in)
    /\ rank_pc' = "ranked"
    /\ UNCHANGED rank_in

\* custom_default_sort applied to its own result
Rerank ==
    /\ rank_pc = "ranked"
    /\ rank_in' = rank_out
    /\ rank_out' = custom_default_sort(rank_out)
    /\ rank_pc' = "reranked"

-----------------------------------------------------------------------------
(* One filter/search evaluation on its own *)

EvalQueries ==
    Queries \cup
    {<<" ">>,
     <<"d", "t", "y", "p", "e">>,
     <<"p", "a", "i", "n">>,
     <<"K", "N", "E", "E">>}

EvalInit ==
    /\ eval_in \in [df     : {Normalize(rs) : rs \in SeqsUpTo(EvalRecords, MaxEvalRows)},
                    svc    : ServiceValues,
                    static : StaticValues,
                    text   : EvalQueries]
    /\ eval_out = <<>>
    /\ eval_pc = "input"

Eval ==
    /\ eval_pc = "input"
    /\ eval_out' = Evaluate(eval_in.df, eval_in.svc, eval_in.static, eval_in.text)
    /\ eval_pc' = "done"
    /\ UNCHANGED eval_in

-----------------------------------------------------------------------------
(* Normalizing a record list on its own: load_file, lines 87-99 *)

\* what r.get("static_ind") can give: the JSON values true, false and null,
\* None for a record without the key, the number 1, the string "true"
StaticInds == {"true", "false", "null", "absent", "1", "str:true"}

NormRecords ==
    {Record(SC, r, "Knee", "Ringing", s) : r \in {<<>>, <<0>>, <<50>>}, s \in StaticInds}

\* the record lists the frame can be built from (an empty one raises)
NormInit ==
    /\ norm_in \in SeqsUpTo(NormRecords, MaxNormRows) \ {<<>>}
    /\ norm_out = <<>>
    /\ norm_pc = "input"

NormalizeRecords ==
    /\ norm_pc = "input"
    /\ norm_out' = Normalize(norm_in)
    /\ norm_pc' = "done"
    /\ UNCHANGED norm_in

-----------------------------------------------------------------------------
(* The filter-set validator and its caller *)

Tokens ==
    {"All", "ServiceConnectedOnly", "NotServiceConnectedOnly", "StaticOnly",
     "NonStaticOnly"}

Validate_AllFirst(tokens) ==
    IF tokens = {} THEN "EmptySelection"
    ELSE IF "All" \in tokens /\ tokens # {"All"} THEN "AllCombinedWithOthers"
    ELSE IF {"ServiceConnectedOnly", "NotServiceConnectedOnly"} \subseteq tokens
    THEN "ConflictingConnectionFilters"
    ELSE IF {"StaticOnly", "NonStaticOnly"} \subseteq tokens
    THEN "ConflictingStaticFilters"
    ELSE "Accepted"

Validate(tokens) ==
    IF tokens = {} THEN "EmptySelection"
    ELSE IF {"ServiceConnectedOnly", "NotServiceConnectedOnly"} \subseteq tokens
    THEN "ConflictingConnectionFilters"
    ELSE IF {"StaticOnly", "NonStaticOnly"} \subseteq tokens
    THEN "ConflictingStaticFilters"
    ELSE IF "All" \in tokens /\ tokens # {"All"} THEN "AllCombinedWithOthers"
    ELSE "Accepted"

ValidatorInit ==
    /\ requested \in SUBSET Tokens
    /\ verdict = "pending"
    /\ applied = <<>>
    /\ attempts = 0

\* the caller submits the selection; an accepted one is applied as it is
Submit ==
    /\ verdict = "pending"
    /\ verdict' = Validate(requested)
    /\ applied' = IF Validate(requested) = "Accepted" THEN <<requested>> ELSE applied
    /\ UNCHANGED <<requested, attempts>>

\* on a rejection the caller prompts again and resubmits
Reprompt ==
    /\ verdict \notin {"pending", "Accepted"}
    /\ attempts < MaxAttempts
    /\ requested' \in SUBSET Tokens
    /\ verdict' = "pending"
    /\ attempts' = attempts + 1
    /\ UNCHANGED applied

-----------------------------------------------------------------------------
(* Specifications *)

RankIdle == rank_in = <<>> /\ rank_out = <<>> /\ rank_pc = "idle"

EvalIdle == eval_in = <<>> /\ eval_out = <<>> /\ eval_pc = "idle"

NormIdle == norm_in = <<>> /\ norm_out = <<>> /\ norm_pc = "idle"

ValidatorIdle ==
    requested = {} /\ verdict = "idle" /\ applied = <<>> /\ attempts = 0

\* the whole session
Init == SessionInit /\ RankIdle /\ EvalIdle /\ NormIdle /\ ValidatorIdle

Next == SessionNext /\ UNCHANGED <<rankVars, evalVars, normVars, validatorVars>>

Spec == Init /\ [][Next]_vars

\* the session's loads, filters, searches and exports
NextExport == ExportNext /\ UNCHANGED <<rankVars, evalVars, normVars, validatorVars>>

SpecExport == Init /\ [][NextExport]_vars

\* custom_default_sort over row sequences
InitRank == SessionInit /\ RankInit /\ EvalIdle /\ NormIdle /\ ValidatorIdle

NextRank == Rank /\ UNCHANGED <<sessionVars, evalVars, normVars, validatorVars>>

SpecRank == InitRank /\ [][NextRank]_vars

\* custom_default_sort over row sequences and over its own results
NextRerank == (Rank \/ Rerank) /\ UNCHANGED <<sessionVars, evalVars, normVars, validatorVars>>

SpecRerank == InitRank /\ [][NextRerank]_vars

\* the evaluation of apply_filters_and_search over frames, selections and queries
InitEval == SessionInit /\ RankIdle /\ EvalInit /\ NormIdle /\ ValidatorIdle

NextEval == Eval /\ UNCHANGED <<sessionVars, rankVars, normVars, validatorVars>>

SpecEval == InitEval /\ [][NextEval]_vars

\* the normalization of load_file over record lists
InitNormalize == SessionInit /\ RankIdle /\ EvalIdle /\ NormInit /\ ValidatorIdle

NextNormalize ==
    NormalizeRecords /\ UNCHANGED <<sessionVars, rankVars, evalVars, validatorVars>>

SpecNormalize == InitNormalize /\ [][NextNormalize]_vars

\* the validator
InitValidator == SessionInit /\ RankIdle /\ EvalIdle /\ NormIdle /\ ValidatorInit

NextValidator ==
    (Submit \/ Reprompt) /\ UNCHANGED <<sessionVars, rankVars, evalVars, normVars>>

SpecValidator == InitValidator /\ [][NextValidator]_vars

-----------------------------------------------------------------------------
(* Properties *)

Ranked == rank_pc = "ranked"

\* the rating a row is ranked by: its percentage, an absent one below every
\* percentage
RatingOrBelow(row) == IF row.Rating = NA THEN -1 ELSE row.Rating[2]

\* the same with an absent rating counted as 0
RatingOrZero(row) == IF row.Rating = NA THEN 0 ELSE row.Rating[2]

IsPermutation(out, in) == Len(out) = Len(in) /\ Range(out) = Range(in)

\* C1 as stated: in the ranked output every Not Service Connected row comes
\* after every row with any other decision (Service Connected, missing, other).
C1_NotConnectedLast ==
    Ranked =>
        \A i, j \in DOMAIN rank_out :
            (rank_out[i].Decision = NSC /\ rank_out[j].Decision # NSC) => j < i

\* C1 amended: every Service Connected row comes before every row with any
\* other decision; Not Service Connected rows and rows with a missing decision
\* form one group, ordered among themselves by rating alone.
C1_ServiceConnectedFirst ==
    Ranked =>
        /\ \A i, j \in DOMAIN rank_out :
               (rank_out[i].Decision = SC /\ rank_out[j].Decision # SC) => i < j
        /\ \A i, j \in DOMAIN rank_out :
               (i < j /\ rank_out[i].Decision # SC /\ rank_out[j].Decision # SC)
                   => RatingOrBelow(rank_out[i]) >= RatingOrBelow(rank_out[j])

C1_Witness ==
    /\ Ranked
    /\ rank_out # rank_in
    /\ \E i, j, k \in DOMAIN rank_out :
           /\ i < j /\ j < k
           /\ rank_out[i].Decision = SC
           /\ rank_out[j].Decision = NSC
           /\ rank_out[k].Decision = None

SameGroup(a, b) == (a.Decision = SC) <=> (b.Decision = SC)

C3_Stable ==
    Ranked =>
        \A i, j \in DOMAIN rank_out :
            (i < j /\ sort_key(rank_out[i]) = sort_key(rank_out[j]))
                => rank_out[i].idx < rank_out[j].idx

Evaluated == eval_pc = "done"

\* strictly increasing index labels, every row one of df's rows
IsSubsequence(out, df) ==
    /\ \A i \in DOMAIN out : out[i] \in Range(df)
    /\ \A i, j \in DOMAIN out : i < j => out[i].idx < out[j].idx

\* C4: the evaluation's result is a subsequence of the frame it is given, and
\* every row of it has the decision the connection filter selects and the
\* static value the static filter selects.
C4_SubsequenceAndPredicates ==
    Evaluated =>
        /\ IsSubsequence(eval_out, eval_in.df)
        /\ \A i \in DOMAIN eval_out :
               /\ eval_in.svc = "Service Connected"
                      => eval_out[i].Decision = "Service Connected"
               /\ eval_in.svc = "Not Service Connected"
                      => eval_out[i].Decision = "Not Service Connected"
               /\ eval_in.static = "Static" => eval_out[i].Static = "Yes"
               /\ eval_in.static = "Non-Static" => eval_out[i].Static = "No"

C4_Witness ==
    /\ Evaluated
    /\ eval_in.svc = "Service Connected"
    /\ eval_in.static = "Static"
    /\ Len(eval_in.df) = 2
    /\ Len(eval_out) = 1
    /\ eval_in.df[1].Static = "N/A"

\* C5 as stated: filtered_data is the evaluation of the selected filters and
\* the search text over original_data.
C5_FilteredIsCurrentEvaluation ==
    filtered_data = Evaluate(original_data, service_var, static_var, search_var)

\* C6 as stated: with a non-empty query, of the rows the two filters keep
\* those and only those survive whose own cell texts contain the query,
\* whatever the letter case.
C6_SearchOwnValues ==
    (Evaluated /\ Query(eval_in.text) # <<>>) =>
        \A i \in DOMAIN eval_in.df :
            LET row == eval_in.df[i]
            IN  (KeepService(row, eval_in.svc) /\ KeepStatic(row, eval_in.static))
                    => (row \in Range(eval_out)
                            <=> Contains(Lower(StrValues(row)), Query(eval_in.text)))

\* C7 as stated: an export writes the filtered rows in the default two-key
\* order, whatever the format.
C7_ExportIsRanked ==
    written # <<>> => written[3] = Display(custom_default_sort(filtered_data))

\* the filter tokens a pair of combobox values stands for
ActiveTokens(svc, static) ==
    LET conn == IF svc = "Service Connected" THEN {"ServiceConnectedOnly"}
                ELSE IF svc = "Not Service Connected" THEN {"NotServiceConnectedOnly"}
                ELSE {}
        stat == IF static = "Static" THEN {"StaticOnly"}
                ELSE IF static = "Non-Static" THEN {"NonStaticOnly"}
                ELSE {}
    IN  IF conn \cup stat = {} THEN {"All"} ELSE conn \cup stat

\* C8: the selection is always one value per axis out of the three the
\* combobox offers, so it stands for at most one connection token, at most one
\* static token, and All only on its own.
C8_SelectionValid ==
    /\ service_var \in {"All", "Service Connected", "Not Service Connected"}
    /\ static_var \in {"All", "Static", "Non-Static"}
    /\ LET sel == ActiveTokens(service_var, static_var)
       IN  /\ Cardinality(sel \cap {"ServiceConnectedOnly", "NotServiceConnectedOnly"}) <= 1
           /\ Cardinality(sel \cap {"StaticOnly", "NonStaticOnly"}) <= 1
           /\ "All" \in sel => sel = {"All"}
           /\ sel # {}

C8_Witness ==
    /\ service_var = "Not Service Connected"
    /\ static_var = "Non-Static"
    /\ filtered_data # <<>>
    /\ Len(filtered_data) < Len(original_data)

ConnConflict(tokens) == {"ServiceConnectedOnly", "NotServiceConnectedOnly"} \subseteq tokens

StaticConflict(tokens) == {"StaticOnly", "NonStaticOnly"} \subseteq tokens

\* C9: the three named selections are rejected with their reasons,
\* {ServiceConnectedOnly, StaticOnly} is accepted, of several violations the
\* first in the order connection, static, All is reported, and only an
\* accepted selection is applied, as it was requested.
C9_ValidatorVerdicts ==
    /\ verdict \notin {"idle", "pending"} =>
           /\ requested = {"ServiceConnectedOnly", "NotServiceConnectedOnly"}
                  => verdict = "ConflictingConnectionFilters"
           /\ requested = {"StaticOnly", "NonStaticOnly"}
                  => verdict = "ConflictingStaticFilters"
           /\ requested = {"All", "ServiceConnectedOnly"}
                  => verdict = "AllCombinedWithOthers"
           /\ requested = {"ServiceConnectedOnly", "StaticOnly"}
                  => verdict = "Accepted"
           /\ ConnConflict(requested) => verdict = "ConflictingConnectionFilters"
           /\ (~ConnConflict(requested) /\ StaticConflict(requested))
                  => verdict = "ConflictingStaticFilters"
           /\ (/\ ~ConnConflict(requested) /\ ~StaticConflict(requested)
               /\ "All" \in requested /\ requested # {"All"})
                  => verdict = "AllCombinedWithOthers"
    /\ applied # <<>> => (verdict = "Accepted" /\ applied = <<requested>>)
    /\ verdict \notin {"idle", "pending", "Accepted"} => applied = <<>>

C9_Witness ==
    /\ requested = Tokens
    /\ verdict = "ConflictingConnectionFilters"
    /\ attempts > 0
    /\ applied = <<>>

\* C10: a load of a document that does not parse or lacks the path shows the
\* error and leaves data, original_data, filtered_data, current_sort_col, the
\* status text and the displayed rows as they were.
C10_FailedLoadChangesNothing ==
    [][(\E doc \in Documents : LoadRaises(doc) /\ load_file(doc))
           => /\ dialog' = "load_error"
              /\ UNCHANGED <<data, original_data, filtered_data,
                             current_sort_col, status, tree>>]_vars

C10_Witness ==
    /\ dialog = "load_error"
    /\ original_data # <<>>
    /\ status = <<"Loaded", [kind |-> "list", ratings |-> <<>>]>>
    /\ current_sort_col = "Rating %"

\* C11 as stated: ranking an already ranked row sequence gives the same row
\* sequence again.
C11_Idempotent == rank_pc = "reranked" => rank_out = rank_in

\* C12: with both filters All and a search text that is empty or all blanks
\* the evaluation returns the frame it was given, every row in its place; and
\* for every selection and query the surviving rows keep their input order.
C12_AllKeepsInputOrder ==
    Evaluated =>
        /\ (/\ eval_in.svc = "All"
            /\ eval_in.static = "All"
            /\ \A k \in DOMAIN eval_in.text : eval_in.text[k] = " ")
               => eval_out = eval_in.df
        /\ \A i, j \in DOMAIN eval_out :
               i < j => \E a, b \in DOMAIN eval_in.df :
                           a < b /\ eval_in.df[a] = eval_out[i]
                                 /\ eval_in.df[b] = eval_out[j]

C12_Witness ==
    /\ Evaluated
    /\ eval_in.svc = "All"
    /\ eval_in.static = "All"
    /\ eval_in.text = <<" ">>
    /\ Len(eval_out) = 2
    /\ eval_out[1].Decision = "Not Service Connected"
    /\ eval_out[2].Decision = "Service Connected"

\* C13: a row whose static value is N/A is in no result of the Static filter
\* and in no result of the Non-Static filter; under All it is in the result
\* exactly when the connection filter and the search keep it.
C13_UnknownStaticOnlyUnderAll ==
    Evaluated =>
        \A i \in DOMAIN eval_in.df :
            LET row == eval_in.df[i]
            IN  row.Static = "N/A" =>
                    /\ eval_in.static \in {"Static", "Non-Static"}
                           => row \notin Range(eval_out)
                    /\ eval_in.static = "All"
                           => (row \in Range(eval_out)
                                 <=> /\ (eval_in.svc = "All" \/ row.Decision = eval_in.svc)
                                     /\ KeepSearch(row, Query(eval_in.text)))

C13_Witness ==
    /\ Evaluated
    /\ eval_in.static = "Non-Static"
    /\ Len(eval_in.df) = 2
    /\ eval_in.df[1].Static = "N/A"
    /\ eval_in.df[2].Static = "No"
    /\ eval_out = <<eval_in.df[2]>>

\* what one record on its own normalizes to, as row number i of a frame
RowOf(record, i) == [Normalize(<<record>>)[1] EXCEPT !.idx = i - 1]

\* C14 as stated: every record gets its row; static_ind becomes Yes exactly
\* for true, No exactly for false and N/A otherwise; a missing rating becomes
\* N/A and no given rating does; and a row is what its own record normalizes
\* to, whatever is missing from the other records.
C14_FieldByField ==
    norm_pc = "done" =>
        /\ Len(norm_out) = Len(norm_in)
        /\ \A i \in DOMAIN norm_out :
               /\ norm_out[i].Static = "Yes" <=> norm_in[i].static_ind = "true"
               /\ norm_out[i].Static = "No" <=> norm_in[i].static_ind = "false"
               /\ norm_out[i].Static \in {"Yes", "No", "N/A"}
               /\ norm_out[i].Rating = NA <=> norm_in[i].rating_percentage = <<>>
               /\ norm_out[i] = RowOf(norm_in[i], i)

\* a load that gets as far as replacing the data
LoadCompletes(doc) == ~LoadRaises(doc) /\ ~FrameRaises(doc) /\ load_file(doc)

\* the evaluation of the values the widgets show over original_data
CurrentEvaluation == Evaluate(original_data, service_var, static_var, search_var)

\* C15 as stated: only a load that completes changes original_data (and
\* data), to the normalized rows of its document; and every derived result is
\* computed from original_data: a filter change or search leaves filtered_data
\* as the evaluation over original_data, Reset Sort displays the ranking of
\* that evaluation, a header click displays a column order of it, and an
\* export writes its rows.
C15_DerivedFromOriginal ==
    [][/\ \/ UNCHANGED <<data, original_data>>
          \/ \E doc \in Documents :
                 /\ LoadCompletes(doc)
                 /\ original_data' = Normalize(doc.ratings)
                 /\ data' = original_data'
       /\ <<service_var, static_var, search_var>>' # <<service_var, static_var, search_var>>
              => /\ UNCHANGED original_data
                 /\ filtered_data' = CurrentEvaluation'
       /\ (reset_sort /\ filtered_data # <<>>)
              => tree' = Display(custom_default_sort(CurrentEvaluation))
       /\ \A col \in Range(Columns) :
              (sort_by_column(col) /\ filtered_data # <<>>)
                  => tree' \in {Display(df) :
                                  df \in ColumnSorted(Converted(CurrentEvaluation, col),
                                                      col, current_sort_desc')}
       /\ written' # <<>> => Range(written'[3]) = Range(Display(CurrentEvaluation))
      ]_vars

\* the events after which the default view is shown
ShowsDefaultView ==
    \/ \E doc \in Documents : ~LoadRaises(doc) /\ load_file(doc)
    \/ \E v \in ServiceValues : SelectService(v)
    \/ \E v \in StaticValues : SelectStatic(v)
    \/ \E text \in Queries : SearchKeyRelease(text)
    \/ reset_sort

\* C16 as stated: right after every file load, filter change, search key
\* release and Reset Sort the displayed rows are the default ranking of
\* filtered_data, and a display that changes to anything else comes from a
\* header click.
C16_DefaultViewIsRanked ==
    [][/\ ShowsDefaultView => tree' = Display(custom_default_sort(filtered_data'))
       /\ (tree' # tree /\ tree' # Display(custom_default_sort(filtered_data')))
              => \E col \in Range(Columns) : sort_by_column(col)
      ]_vars

\* C17: an export whose write fails, whatever the format, shows the export
\* error and no success, writes nothing, and leaves the data, the sort state,
\* the filter and search values, the display and the status as they were.
C17_WriteFailureReported ==
    [][\A in \in ExportInputs :
           (/\ filtered_data # <<>>
            /\ in[1] \in Formats /\ in[2] /\ ~in[3]
            /\ export_prompt(in[1], in[2], in[3]))
               => /\ dialog' = "export_error"
                  /\ written' = <<>>
                  /\ UNCHANGED <<data, original_data, filtered_data,
                                 current_sort_col, current_sort_desc, service_var,
                                 static_var, search_var, tree, status>>
      ]_vars

C17_Witness ==
    /\ dialog = "export_error"
    /\ written = <<>>
    /\ service_var = "Service Connected"
    /\ Len(original_data) = 2
    /\ Len(filtered_data) = 1

\* the direction a click on col takes with this sort state (lines 138-140)
ClickDescending(sort_col, sort_desc, col) ==
    IF sort_col = col THEN ~sort_desc ELSE TRUE

\* C18 as stated: a header click on another column than current_sort_col
\* sorts descending and one on the same column flips the direction; and after
\* a load, a filter change, a search or Reset Sort has shown the default view,
\* the next click sorts descending whatever the column.
C18_ClickProtocol ==
    [][/\ \A col \in Range(Columns) :
              (sort_by_column(col) /\ filtered_data # <<>>)
                  => /\ current_sort_col' = col
                     /\ current_sort_desc' =
                            (IF current_sort_col = col THEN ~current_sort_desc ELSE TRUE)
       /\ (/\ \/ \E doc \in Documents : LoadCompletes(doc)
              \/ \E v \in ServiceValues : SelectService(v)
              \/ \E v \in StaticValues : SelectStatic(v)
              \/ \E text \in Queries : SearchKeyRelease(text)
              \/ reset_sort
           /\ filtered_data' # <<>>)
              => \A col \in Range(Columns) :
                     ClickDescending(current_sort_col', current_sort_desc', col)
      ]_vars

\* C19 as stated: whenever the status names a document as loaded, data and
\* original_data are the normalized rows of that document and filtered_data
\* is rows of it.
C19_StatusNamesLoadedData ==
    status[1] = "Loaded" =>
        LET df == Normalize(status[2].ratings)
        IN  /\ data = df
            /\ original_data = df
            /\ IsSubsequence(filtered_data, df)

\* C20: with filtered_data empty an export, whatever would be answered to its
\* dialogs, shows "no data", writes nothing and changes nothing else; with
\* filtered_data not empty, a format chosen and a destination given, the one
\* write is made, of the rows of filtered_data in that format, or fails with
\* the export error; and nothing is written without a format and destination.
C20_ExportOnlyOfRows ==
    [][\A in \in ExportInputs :
           export_prompt(in[1], in[2], in[3]) =>
               /\ UNCHANGED <<data, original_data, filtered_data,
                              current_sort_col, current_sort_desc, service_var,
                              static_var, search_var, tree, status>>
               /\ IF filtered_data = <<>>
                  THEN dialog' = "no_data" /\ written' = <<>>
                  ELSE IF in[1] \in Formats /\ in[2]
                  THEN IF in[3]
                       THEN /\ dialog' = "exported"
                            /\ written' = <<in[1], Columns,
                                   [i \in DOMAIN filtered_data |-> Values(filtered_data[i])]>>
                       ELSE dialog' = "export_error" /\ written' = <<>>
                  ELSE dialog' \in {"none", "invalid_choice"} /\ written' = <<>>
      ]_vars

C20_Witness ==
    /\ dialog = "no_data"
    /\ written = <<>>
    /\ original_data # <<>>
    /\ filtered_data = <<>>
    /\ static_var = "Static"

====
